---------------------------- MODULE Spec2Model ----------------------------
(***************************************************************************)
(* A model of leicaexperiment/experiment.py: lossless compression of the   *)
(* images of a Leica matrix scan (TIFF <-> PNG plus a JSON sidecar), the   *)
(* parser of the --LETTERdigits attributes of a path, and the accessors of *)
(* the experiment's folder hierarchy.                                      *)
(*                                                                         *)
(* Paths and other strings are sequences of one-character strings, so that *)
(* os.path.splitext, str.rsplit, re.findall and sorted() are computed on   *)
(* characters as Python computes them.                                     *)
(***************************************************************************)
EXTENDS Integers, Sequences, FiniteSets, TLC

VARIABLES
    fs,                   \* the files that exist (a set of paths)
    fs0,                  \* the files that existed when the current call began
    call,                 \* the call in progress or last finished, with its arguments
    jobs,                 \* one record per image of the call: its position in the code
    order,                \* the indices of the jobs in the order they finished
    decompressed_images,  \* decompress's accumulator (line 572)
    ret,                  \* what the call returned or raised
    path,                 \* the path given to the attribute parser
    parsed,               \* the parser's call and what it returned
    img,                  \* an image being compressed: its mode and its TIFF tags
    sidecar,              \* the JSON compress wrote for it
    restored,             \* what decompress rebuilt from the sidecar
    listing               \* the accessor of Experiment called and what it returned

fileVars == <<fs, fs0, call, jobs, order, decompressed_images, ret>>
attrVars == <<path, parsed>>
tagVars  == <<img, sidecar, restored>>

globVars == <<listing>>

vars == <<fileVars, attrVars, tagVars, globVars>>

notFileVars == <<attrVars, tagVars, globVars>>

----------------------------------------------------------------------------
(* Bounds of the model. *)

\* images in one batch
MaxBatch == 2
\* pieces a parsed path is put together from
MaxPieces == 3
\* tags of an image
MaxTags == 2
\* the last column of fields of a well
MaxFieldX == 1

\* the fallback size of the worker pool (the host's cpu count otherwise)
_pools == 4

----------------------------------------------------------------------------
(* Strings. *)

SetMax(S) == CHOOSE x \in S : \A y \in S : y <= x

\* str.rfind of one character, 1-based, 0 when absent
RFind(s, c) ==
    LET I == {i \in 1..Len(s) : s[i] = c}
    IN  IF I = {} THEN 0 ELSE SetMax(I)

\* the positions where sub occurs in s
Occurrences(s, sub) ==
    {i \in 1..(Len(s) - Len(sub) + 1) : SubSeq(s, i, i + Len(sub) - 1) = sub}

\* s.rsplit(sub, 1)[0]: s up to the last occurrence of sub, s when there is none
rsplit(s, sub) ==
    IF Occurrences(s, sub) = {} THEN s
    ELSE SubSeq(s, 1, SetMax(Occurrences(s, sub)) - 1)

\* os.path.splitext: the extension starts at the last dot of the last
\* component, unless only dots precede it there
splitext(p) ==
    LET sepIndex == RFind(p, "/")
        dotIndex == RFind(p, ".")
    IN  IF /\ dotIndex > sepIndex
           /\ \E k \in (sepIndex + 1)..(dotIndex - 1) : p[k] # "."
        THEN <<SubSeq(p, 1, dotIndex - 1), SubSeq(p, dotIndex, Len(p))>>
        ELSE <<p, <<>> >>

basename(p) == SubSeq(p, RFind(p, "/") + 1, Len(p))

\* os.path.join of two parts
join(a, b) ==
    IF b # <<>> /\ b[1] = "/" THEN b
    ELSE IF a = <<>> \/ a[Len(a)] = "/" THEN a \o b
    ELSE a \o <<"/">> \o b

dot_tif  == <<".", "t", "i", "f">>
dot_png  == <<".", "p", "n", "g">>
dot_ome  == <<".", "o", "m", "e">>
dot_json == <<".", "j", "s", "o", "n">>
dot_ome_tif == dot_ome \o dot_tif

\* the empty string: no folder given, and a failed compress_blocking's result
Empty == <<>>

----------------------------------------------------------------------------
(* The names compress_blocking and decompress derive from an image's path. *)

\* compress_blocking, lines 487-496
compress_new_filename(image, folder) ==
    LET stripped == rsplit(splitext(image)[1], dot_ome)
    IN  IF folder # Empty
        THEN join(folder, basename(stripped) \o dot_png)
        ELSE stripped \o dot_png

\* compress_blocking, line 514: new_filename[:-4] + '.json'
compress_json_filename(new_filename) ==
    SubSeq(new_filename, 1, Len(new_filename) - 4) \o dot_json

\* decompress, lines 576-583
decompress_new_filename(orig_filename, folder) ==
    LET filename == splitext(orig_filename)[1]
    IN  IF folder # Empty
        THEN join(folder, basename(filename) \o dot_ome_tif)
        ELSE filename \o dot_ome_tif

\* decompress, lines 600 and 626: filename + '.json'
decompress_json_filename(orig_filename) ==
    splitext(orig_filename)[1] \o dot_json


----------------------------------------------------------------------------
(* The files of the model: two images of one field, one of them exported   *)
(* as .ome.tif, an image of the same name in another folder, and what      *)
(* compress and decompress derive from them.                               *)

a_x_ome_tif == <<"a", "/", "x">> \o dot_ome_tif
a_x_tif     == <<"a", "/", "x">> \o dot_tif
b_x_tif     == <<"b", "/", "x">> \o dot_tif
a_x_png     == <<"a", "/", "x">> \o dot_png
a_x_json    == <<"a", "/", "x">> \o dot_json
out_folder  == <<"o">>

CompressSources   == {a_x_ome_tif, a_x_tif, b_x_tif, a_x_png}
DecompressSources == {a_x_png, a_x_tif}
InitFiles == {a_x_ome_tif, a_x_tif, b_x_tif, a_x_png, a_x_json}

\* a/x.tif holds samples of a mode the PNG encoder rejects (floating point):
\* img.save raises IOError for it
Unsavable == {a_x_tif}
Folders   == {Empty, out_folder}

\* the lists of 1..MaxBatch different paths of S
Batches(S) ==
    {b \in UNION {[1..n -> S] : n \in 1..MaxBatch} :
        \A i, k \in DOMAIN b : i # k => b[i] # b[k]}

----------------------------------------------------------------------------
(* Calls and jobs. *)

NoCall ==
    [op |-> "none", asStr |-> FALSE, images |-> <<>>, delete_tif |-> FALSE,
     delete_png |-> FALSE, delete_json |-> FALSE, folder |-> Empty, force |-> FALSE]

NoRet == [kind |-> "none", val |-> <<>>]

\* a job before its first step
NewJob(image) ==
    [image |-> image, pc |-> "todo", new_filename |-> Empty, result |-> Empty,
     exc |-> "", wrote |-> {}, removed |-> {}]

\* compress_blocking up to its two checks, lines 487-505. The branch taken
\* when the PNG exists evaluates compressed_images.append (line 500): no such
\* name is defined in compress_blocking or in the module, so it raises
\* NameError, which the except clause of line 537 does not catch.
compress_check(files, j, c) ==
    LET new == compress_new_filename(j.image, c.folder)
        ext == splitext(j.image)[2]
    IN  IF new \in files /\ ~c.force
        THEN [j EXCEPT !.pc = "done", !.new_filename = new, !.exc = "NameError"]
        ELSE IF ext # dot_tif
        THEN [j EXCEPT !.pc = "done", !.new_filename = new, !.result = Empty]
        ELSE [j EXCEPT !.pc = "checked", !.new_filename = new]

\* compress_blocking from Image.open to its return, lines 507-542. img.save
\* raises IOError for an image the encoder rejects, after the sidecar was
\* written.
compress_act(files, j, c) ==
    LET json == compress_json_filename(j.new_filename)
        saveOk == j.image \notin Unsavable
    IN  IF j.image \notin files
        THEN [fs |-> files, job |-> [j EXCEPT !.pc = "done", !.result = Empty]]
        ELSE IF ~saveOk
        THEN [fs  |-> files \cup {json},
              job |-> [j EXCEPT !.pc = "done", !.result = Empty,
                                !.wrote = {json}]]
        ELSE [fs  |-> IF c.delete_tif
                      THEN (files \cup {json, j.new_filename}) \ {j.image}
                      ELSE files \cup {json, j.new_filename},
              job |-> [j EXCEPT !.pc = "done", !.result = j.new_filename,
                                !.wrote = {json, j.new_filename},
                                !.removed = IF c.delete_tif THEN {j.image} ELSE {}]]

\* decompress(images) with a string, line 568: decompress([images]), which
\* passes none of delete_png, delete_json and folder on
decompress_options(c) ==
    IF c.asStr
    THEN [delete_png |-> FALSE, delete_json |-> FALSE, folder |-> Empty]
    ELSE [delete_png |-> c.delete_png, delete_json |-> c.delete_json,
          folder |-> c.folder]

\* one turn of decompress's loop up to its two checks, lines 576-592;
\* append: what the turn appends to decompressed_images
decompress_check(files, j, c) ==
    LET new == decompress_new_filename(j.image, decompress_options(c).folder)
        ext == splitext(j.image)[2]
    IN  IF new \in files
        THEN [job |-> [j EXCEPT !.pc = "done", !.new_filename = new],
              append |-> <<new>>]
        ELSE IF ext # dot_png
        THEN [job |-> [j EXCEPT !.pc = "done", !.new_filename = new],
              append |-> <<>>]
        ELSE [job |-> [j EXCEPT !.pc = "checked", !.new_filename = new],
              append |-> <<>>]

\* the rest of the turn, lines 594-630. The sidecar is one compress wrote,
\* whose values are arrays (see the tag model below).
decompress_act(files, j, c) ==
    LET json == decompress_json_filename(j.image)
        o    == decompress_options(c)
        gone == (IF o.delete_png THEN {j.image} ELSE {})
                \cup (IF o.delete_json THEN {json} ELSE {})
    IN  IF j.image \notin files \/ json \notin files
        THEN [fs |-> files, job |-> [j EXCEPT !.pc = "done"], append |-> <<>>]
        ELSE [fs  |-> (files \cup {j.new_filename}) \ gone,
              job |-> [j EXCEPT !.pc = "done", !.result = j.new_filename,
                                !.wrote = {j.new_filename}, !.removed = gone],
              append |-> <<j.new_filename>>]

\* joblib's Parallel, lines 461-463: the list of the jobs' results, in the
\* order of the jobs
ParallelResultsByCompletion(js, ord) == [k \in 1..Len(ord) |-> js[ord[k]].result]
ParallelResults(js, ord) == [i \in 1..Len(js) |-> js[i].result]

----------------------------------------------------------------------------
(* The calls. *)

\* A behaviour is one call, begun in any state of the files.
Begin(c) ==
    /\ call.op = "none"
    /\ UNCHANGED notFileVars
    /\ call' = c
    /\ fs0' = fs
    /\ jobs' = [i \in 1..Len(c.images) |-> NewJob(c.images[i])]
    /\ order' = <<>>
    /\ decompressed_images' = <<>>
    /\ ret' = NoRet
    /\ UNCHANGED fs

\* compress_blocking(image, delete_tif, folder, force), line 466
CallCompressBlocking ==
    \E image \in CompressSources, delete_tif \in BOOLEAN, folder \in Folders,
       force \in BOOLEAN :
        Begin([NoCall EXCEPT !.op = "compress_blocking", !.asStr = TRUE,
                             !.images = <<image>>, !.delete_tif = delete_tif,
                             !.folder = folder, !.force = force])

\* compress(images, delete_tif, folder) with a string, lines 454-456
CallCompressStr ==
    \E image \in CompressSources, delete_tif \in BOOLEAN, folder \in Folders :
        Begin([NoCall EXCEPT !.op = "compress", !.asStr = TRUE,
                             !.images = <<image>>, !.delete_tif = delete_tif,
                             !.folder = folder])

\* compress(images, delete_tif, folder) with a list, lines 458-463
CallCompressList ==
    \E images \in Batches(CompressSources), delete_tif \in BOOLEAN,
       folder \in Folders :
        Begin([NoCall EXCEPT !.op = "compress", !.images = images,
                             !.delete_tif = delete_tif, !.folder = folder])

\* decompress(images, delete_png, delete_json, folder) with a string, line 566
CallDecompressStr ==
    \E image \in DecompressSources, delete_png \in BOOLEAN,
       delete_json \in BOOLEAN, folder \in Folders :
        Begin([NoCall EXCEPT !.op = "decompress", !.asStr = TRUE,
                             !.images = <<image>>, !.delete_png = delete_png,
                             !.delete_json = delete_json, !.folder = folder])

\* decompress(images, delete_png, delete_json, folder) with a list, line 570
CallDecompressList ==
    \E images \in Batches(DecompressSources), delete_png \in BOOLEAN,
       delete_json \in BOOLEAN, folder \in Folders :
        Begin([NoCall EXCEPT !.op = "decompress", !.images = images,
                             !.delete_png = delete_png,
                             !.delete_json = delete_json, !.folder = folder])

Running == call.op # "none" /\ ret.kind = "none"

\* the jobs of compress's list run in the workers of Parallel
InPool == call.op = "compress" /\ ~call.asStr

Raised == \E i \in DOMAIN jobs : jobs[i].exc # ""

\* A worker takes a job that has not begun while fewer than _pools run; the
\* loop of decompress and a direct call take the images in turn.
MayBegin(i) ==
    /\ jobs[i].pc = "todo"
    /\ IF InPool
       THEN Cardinality({k \in DOMAIN jobs : jobs[k].pc = "checked"}) < _pools
       ELSE \A k \in 1..(i - 1) : jobs[k].pc = "done"

CompressCheck(i) ==
    /\ Running /\ call.op \in {"compress", "compress_blocking"}
    /\ MayBegin(i)
    /\ LET j == compress_check(fs, jobs[i], call)
       IN  /\ jobs' = [jobs EXCEPT ![i] = j]
           /\ order' = IF j.pc = "done" THEN Append(order, i) ELSE order
    /\ UNCHANGED <<fs, fs0, call, decompressed_images, ret>>
    /\ UNCHANGED notFileVars

CompressAct(i) ==
    /\ Running /\ call.op \in {"compress", "compress_blocking"}
    /\ jobs[i].pc = "checked"
    /\ LET r == compress_act(fs, jobs[i], call)
       IN  /\ fs' = r.fs
           /\ jobs' = [jobs EXCEPT ![i] = r.job]
    /\ order' = Append(order, i)
    /\ UNCHANGED <<fs0, call, decompressed_images, ret>>
    /\ UNCHANGED notFileVars

DecompressCheck(i) ==
    /\ Running /\ call.op = "decompress"
    /\ MayBegin(i)
    /\ LET r == decompress_check(fs, jobs[i], call)
       IN  /\ jobs' = [jobs EXCEPT ![i] = r.job]
           /\ decompressed_images' = decompressed_images \o r.append
           /\ order' = IF r.job.pc = "done" THEN Append(order, i) ELSE order
    /\ UNCHANGED <<fs, fs0, call, ret>>
    /\ UNCHANGED notFileVars

DecompressAct(i) ==
    /\ Running /\ call.op = "decompress"
    /\ jobs[i].pc = "checked"
    /\ LET r == decompress_act(fs, jobs[i], call)
       IN  /\ fs' = r.fs
           /\ jobs' = [jobs EXCEPT ![i] = r.job]
           /\ decompressed_images' = decompressed_images \o r.append
    /\ order' = Append(order, i)
    /\ UNCHANGED <<fs0, call, ret>>
    /\ UNCHANGED notFileVars

\* what a call whose jobs have all finished hands back
Returned ==
    IF Raised
    THEN [kind |-> "raised", val |-> <<>>]
    ELSE IF call.op = "compress_blocking"
    THEN [kind |-> "value", val |-> <<jobs[1].result>>]
    ELSE IF call.op = "compress"
    THEN [kind |-> "list", val |-> ParallelResults(jobs, order)]
    ELSE [kind |-> "list", val |-> decompressed_images]

Return ==
    /\ Running
    /\ \A i \in DOMAIN jobs : jobs[i].pc = "done"
    /\ ret' = Returned
    /\ UNCHANGED <<fs, fs0, call, jobs, order, decompressed_images>>
    /\ UNCHANGED notFileVars

\* An exception of one job ends Parallel's call while other jobs have not
\* finished: the call raises and the workers are stopped where they are.
Abort ==
    /\ Running /\ InPool
    /\ Raised
    /\ \E i \in DOMAIN jobs : jobs[i].pc # "done"
    /\ ret' = [kind |-> "raised", val |-> <<>>]
    /\ UNCHANGED <<fs, fs0, call, jobs, order, decompressed_images>>
    /\ UNCHANGED notFileVars

NoParse == [fn |-> "none", name |-> "", value |-> <<>>]

\* no call of compress or decompress is made
FilesAtRest ==
    /\ fs = {}
    /\ fs0 = {}
    /\ call = NoCall
    /\ jobs = <<>>
    /\ order = <<>>
    /\ decompressed_images = <<>>
    /\ ret = NoRet

\* the parser is not called
ParserAtRest ==
    /\ path = <<>>
    /\ parsed = NoParse

NoImage == [mode |-> "", tags |-> <<>>, palette |-> <<>>]
NoSidecar == [written |-> FALSE, items |-> <<>>]
NotRestored == [done |-> FALSE, exc |-> "", info |-> <<>>, palette |-> <<>>]

\* no image's tags are converted
TagsAtRest ==
    /\ img = NoImage
    /\ sidecar = NoSidecar
    /\ restored = NotRestored

NoListing == [accessor |-> "none", value |-> <<>>]

\* no accessor of Experiment is called
ExperimentAtRest == listing = NoListing

Init ==
    /\ fs \in SUBSET InitFiles
    /\ fs0 = fs
    /\ call = NoCall
    /\ jobs = <<>>
    /\ order = <<>>
    /\ decompressed_images = <<>>
    /\ ret = NoRet
    /\ ParserAtRest
    /\ TagsAtRest
    /\ ExperimentAtRest

Next ==
    \/ CallCompressBlocking
    \/ CallCompressStr
    \/ CallCompressList
    \/ CallDecompressStr
    \/ CallDecompressList
    \/ \E i \in DOMAIN jobs : CompressCheck(i)
    \/ \E i \in DOMAIN jobs : CompressAct(i)
    \/ \E i \in DOMAIN jobs : DecompressCheck(i)
    \/ \E i \in DOMAIN jobs : DecompressAct(i)
    \/ Return
    \/ Abort

Spec == Init /\ [][Next]_vars


----------------------------------------------------------------------------
(* What a call of one image does when nothing else runs: its check, then   *)
(* its work. Used to compare the two ways of passing one image.            *)

compress_one(files, c) ==
    LET j == compress_check(files, NewJob(c.images[1]), c)
        r == IF j.pc = "done" THEN [fs |-> files, job |-> j]
             ELSE compress_act(files, j, c)
    IN  [fs  |-> r.fs,
         ret |-> IF r.job.exc # "" THEN [kind |-> "raised", val |-> <<>>]
                 ELSE [kind |-> "list", val |-> <<r.job.result>>]]

decompress_one(files, c) ==
    LET k == decompress_check(files, NewJob(c.images[1]), c)
        r == IF k.job.pc = "done"
             THEN [fs |-> files, job |-> k.job, append |-> <<>>]
             ELSE decompress_act(files, k.job, c)
    IN  [fs  |-> r.fs,
         ret |-> [kind |-> "list", val |-> k.append \o r.append]]

CallOutcome(files, c) ==
    IF c.op = "compress" THEN compress_one(files, c) ELSE decompress_one(files, c)

Finished == ret.kind # "none"
IsCompress == call.op \in {"compress", "compress_blocking"}
ListCall == call.op \in {"compress", "decompress"} /\ ~call.asStr
Touched(j) == j.wrote \cup j.removed

----------------------------------------------------------------------------
(* Claims about compress and decompress. *)

\* C1: a compress job whose candidate PNG exists, without force, returns the
\* existing PNG path, raises nothing and writes or deletes no file; the call
\* leaves the files as they were.
C1_ExistingPngIsNoOp ==
    \A i \in DOMAIN jobs :
        (/\ IsCompress /\ ~call.force
         /\ jobs[i].pc = "done"
         /\ compress_new_filename(jobs[i].image, call.folder) \in fs0)
        => /\ jobs[i].exc = ""
           /\ jobs[i].result = compress_new_filename(jobs[i].image, call.folder)
           /\ Touched(jobs[i]) = {}
           /\ (Finished /\ Len(jobs) = 1 => ret.kind # "raised" /\ fs = fs0)

C4_OneResultPerItem ==
    (Finished /\ ListCall)
    => /\ ret.kind = "list"
       /\ Len(ret.val) = Len(call.images)
       /\ \A i \in DOMAIN jobs :
            /\ jobs[i].pc = "done"
            /\ ret.val[i] = IF jobs[i].new_filename \in jobs[i].wrote
                            THEN jobs[i].new_filename ELSE Empty

\* a batch decompress returned fewer results than it was given items
C4_FewerResultsReached ==
    /\ Finished /\ ListCall /\ call.op = "decompress"
    /\ ret.kind = "list"
    /\ Len(ret.val) < Len(call.images)

\* C5: compressing a file whose extension is not .tif gives the empty result,
\* raises nothing and leaves the files as they were.
C5_NonTiffFailsCleanly ==
    \A i \in DOMAIN jobs :
        (IsCompress /\ jobs[i].pc = "done" /\ splitext(jobs[i].image)[2] # dot_tif)
        => /\ jobs[i].exc = ""
           /\ jobs[i].result = Empty
           /\ Touched(jobs[i]) = {}
           /\ (Finished /\ Len(jobs) = 1 => ret.kind # "raised" /\ fs = fs0)

\* C6: compress and decompress of a path string return the same list and
\* leave the same files as the same call with the one-element list of that
\* path, and the other way round.
C6_StringIsOneElementList ==
    (Finished /\ call.op \in {"compress", "decompress"} /\ Len(call.images) = 1)
    => [fs |-> fs, ret |-> ret]
         = CallOutcome(fs0, [call EXCEPT !.asStr = ~call.asStr])

\* C9: in one batch two different images never get the same PNG or TIFF path
\* (nor, then, the same sidecar), and no two jobs write or delete the same
\* file.
C9_JobsOwnTheirFiles ==
    \A i, k \in DOMAIN jobs :
        (ListCall /\ i # k /\ jobs[i].image # jobs[k].image)
        => /\ (jobs[i].pc # "todo" /\ jobs[k].pc # "todo"
                    => jobs[i].new_filename # jobs[k].new_filename)
           /\ Touched(jobs[i]) \cap Touched(jobs[k]) = {}

\* two workers of one batch have both written the same PNG
C9_SameFileWrittenTwice ==
    \E i, k \in DOMAIN jobs :
        /\ call.op = "compress" /\ ~call.asStr /\ i # k
        /\ jobs[i].image # jobs[k].image
        /\ jobs[i].new_filename \in jobs[i].wrote \cap jobs[k].wrote


----------------------------------------------------------------------------
(* The attribute parser: attribute, attribute_as_str and attributes.       *)

Digits == {"0", "1", "2", "3", "4", "5", "6", "7", "8", "9"}
IsDigit(ch) == ch \in Digits
UpperCase == 
    <<"A", "B", "C", "D", "E", "F", "G", "H", "I", "J", "K", "L", "M">>
    \o <<"N", "O", "P", "Q", "R", "S", "T", "U", "V", "W", "X", "Y", "Z">>
LowerCase == 
    <<"a", "b", "c", "d", "e", "f", "g", "h", "i", "j", "k", "l", "m">>
    \o <<"n", "o", "p", "q", "r", "s", "t", "u", "v", "w", "x", "y", "z">>
IsUpper(ch) == \E i \in 1..26 : UpperCase[i] = ch

\* str.upper and str.lower of one character
upper(ch) ==
    IF \E i \in 1..26 : LowerCase[i] = ch
    THEN UpperCase[CHOOSE i \in 1..26 : LowerCase[i] = ch] ELSE ch
lower(ch) ==
    IF \E i \in 1..26 : UpperCase[i] = ch
    THEN LowerCase[CHOOSE i \in 1..26 : UpperCase[i] = ch] ELSE ch

DigitValue(ch) ==
    CASE ch = "0" -> 0 [] ch = "1" -> 1 [] ch = "2" -> 2 [] ch = "3" -> 3
      [] ch = "4" -> 4 [] ch = "5" -> 5 [] ch = "6" -> 6 [] ch = "7" -> 7
      [] ch = "8" -> 8 [] ch = "9" -> 9

\* int() of a string of digits
RECURSIVE int(_)
int(str) ==
    IF str = <<>> THEN 0
    ELSE 10 * int(SubSeq(str, 1, Len(str) - 1)) + DigitValue(str[Len(str)])

\* how many digits follow from position i, counted up to most
DigitsAt(s, i, most) ==
    SetMax({n \in 0..most : \A k \in i..(i + n - 1) : k <= Len(s) /\ IsDigit(s[k])})

\* re.findall('--' + name.upper() + '([0-9]{2})', path), lines 652 and 676:
\* the two digits of every match, left to right, matches not overlapping
RECURSIVE findall_name_2(_, _, _)
findall_name_2(s, i, letter) ==
    IF i + 4 > Len(s) THEN <<>>
    ELSE IF /\ s[i] = "-" /\ s[i + 1] = "-" /\ s[i + 2] = letter
            /\ DigitsAt(s, i + 3, 2) = 2
         THEN <<SubSeq(s, i + 3, i + 4)>> \o findall_name_2(s, i + 5, letter)
         ELSE findall_name_2(s, i + 1, letter)

\* re.findall('--([A-Z]{1})([0-9]{2,4})', path), line 703: the letter and
\* the two to four digits (as many as there are) of every match
RECURSIVE findall_any_2_4(_, _)
findall_any_2_4(s, i) ==
    IF i + 4 > Len(s) THEN <<>>
    ELSE IF /\ s[i] = "-" /\ s[i + 1] = "-" /\ IsUpper(s[i + 2])
            /\ DigitsAt(s, i + 3, 4) >= 2
         THEN LET n == DigitsAt(s, i + 3, 4)
              IN  <<<<s[i + 2], SubSeq(s, i + 3, i + 2 + n)>>>>
                    \o findall_any_2_4(s, i + 3 + n)
         ELSE findall_any_2_4(s, i + 1)

\* what attribute and attribute_as_str return: found is FALSE for None
None == [found |-> FALSE, str |-> <<>>, int |-> 0]

\* attribute(path, name), lines 652-656
attribute(p, name) ==
    LET matches == findall_name_2(p, 1, upper(name))
    IN  IF matches # <<>>
        THEN [found |-> TRUE, str |-> <<>>, int |-> int(matches[Len(matches)])]
        ELSE None

\* attribute_as_str(path, name), lines 676-680
attribute_as_str(p, name) ==
    LET matches == findall_name_2(p, 1, upper(name))
    IN  IF matches # <<>>
        THEN [found |-> TRUE, str |-> matches[Len(matches)], int |-> 0]
        ELSE None

Remove(seq, i) == SubSeq(seq, 1, i - 1) \o SubSeq(seq, i + 1, Len(seq))
IndexOf(seq, x) == CHOOSE i \in 1..Len(seq) : seq[i] = x /\ \A k \in 1..(i - 1) : seq[k] # x
Contains(seq, x) == \E i \in 1..Len(seq) : seq[i] = x

\* a mistaken loop: a key met again is skipped, so its first value is kept
RECURSIVE keep_first(_, _, _)
keep_first(matches, keys, values) ==
    IF matches = <<>> THEN [keys |-> keys, values |-> values]
    ELSE LET k == matches[1][1]
             v == matches[1][2]
         IN  IF Contains(keys, k)
             THEN keep_first(Tail(matches), keys, values)
             ELSE keep_first(Tail(matches), Append(keys, k), Append(values, v))

\* the loop of lines 705-714: a key met again is deleted with its value
\* before it is appended anew
RECURSIVE keep_last(_, _, _)
keep_last(matches, keys, values) ==
    IF matches = <<>> THEN [keys |-> keys, values |-> values]
    ELSE LET k == matches[1][1]
             v == matches[1][2]
             i == IndexOf(keys, k)
         IN  IF Contains(keys, k)
             THEN keep_last(Tail(matches), Append(Remove(keys, i), k),
                            Append(Remove(values, i), v))
             ELSE keep_last(Tail(matches), Append(keys, k), Append(values, v))

\* attributes(path), lines 703-721: the namedtuple, as its field names and
\* its values in the order of the fields
attributes(p) ==
    LET kv == keep_last(findall_any_2_4(p, 1), <<>>, <<>>)
        lower_keys == [i \in 1..Len(kv.keys) |-> lower(kv.keys[i])]
        int_values == [i \in 1..Len(kv.values) |-> int(kv.values[i])]
    IN  [fields |-> kv.keys \o lower_keys, values |-> kv.values \o int_values]

\* the value of field f of a namedtuple
Field(nt, f) == nt.values[IndexOf(nt.fields, f)]

\* The paths parsed: up to MaxPieces of these pieces in a row, a piece being a
\* code with one to four digits, a dash or a digit.
Codes  == {<<"-", "-", "U">>, <<"-", "-", "V">>}
Groups == {<<"0">>, <<"1", "2">>, <<"0", "1", "2">>, <<"1", "2", "0", "0">>}
Pieces == {c \o g : c \in Codes, g \in Groups} \cup {<<"-">>, <<"0">>}

RECURSIVE Concat(_)
Concat(ps) == IF ps = <<>> THEN <<>> ELSE ps[1] \o Concat(Tail(ps))

Paths == {Concat(ps) : ps \in UNION {[1..n -> Pieces] : n \in 0..MaxPieces}}

Names == {"U", "v", "W"}

CallAttribute ==
    /\ parsed.fn = "none"
    /\ \E name \in Names :
        parsed' = [fn |-> "attribute", name |-> name, value |-> attribute(path, name)]
    /\ UNCHANGED <<path, fileVars, tagVars, globVars>>

CallAttributeAsStr ==
    /\ parsed.fn = "none"
    /\ \E name \in Names :
        parsed' = [fn |-> "attribute_as_str", name |-> name,
                   value |-> attribute_as_str(path, name)]
    /\ UNCHANGED <<path, fileVars, tagVars, globVars>>

CallAttributes ==
    /\ parsed.fn = "none"
    /\ parsed' = [fn |-> "attributes", name |-> "", value |-> attributes(path)]
    /\ UNCHANGED <<path, fileVars, tagVars, globVars>>

InitAttr ==
    /\ path \in Paths
    /\ parsed = NoParse
    /\ FilesAtRest
    /\ TagsAtRest
    /\ ExperimentAtRest

NextAttr ==
    \/ CallAttribute
    \/ CallAttributeAsStr
    \/ CallAttributes

SpecAttr == InitAttr /\ [][NextAttr]_vars


----------------------------------------------------------------------------
(* Claims about the attribute parser. *)

\* '--' and the letter stand at position i
CodeAt(s, i, letter) ==
    i + 2 <= Len(s) /\ s[i] = "-" /\ s[i + 1] = "-" /\ s[i + 2] = letter

\* the length of the group of digits that begins at position i
RunAt(s, i) == DigitsAt(s, i, Len(s))

\* the right-most '--letter' of s
LastCode(s, letter) == SetMax({i \in 1..Len(s) : CodeAt(s, i, letter)})

\* the whole group of digits behind the right-most '--letter'
LastGroup(s, letter) ==
    SubSeq(s, LastCode(s, letter) + 3,
           LastCode(s, letter) + 2 + RunAt(s, LastCode(s, letter) + 3))

HasGroupOf2To4(s, letter) ==
    /\ \E i \in 1..Len(s) : CodeAt(s, i, letter)
    /\ Len(LastGroup(s, letter)) \in 2..4

\* C7: when the right-most '--LETTER' is followed by two to four digits,
\* attribute returns the integer of the whole group and attribute_as_str the
\* whole group, as the fields of attributes(path) do; for a code that is not
\* in the path attribute returns None.
C7_AttributeReadsWholeGroup ==
    LET letter == upper(parsed.name)
    IN  /\ (parsed.fn = "attribute" /\ HasGroupOf2To4(path, letter))
            => /\ parsed.value.found
               /\ parsed.value.int = int(LastGroup(path, letter))
               /\ parsed.value.int = Field(attributes(path), lower(letter))
        /\ (parsed.fn = "attribute_as_str" /\ HasGroupOf2To4(path, letter))
            => /\ parsed.value.found
               /\ parsed.value.str = LastGroup(path, letter)
               /\ parsed.value.str = Field(attributes(path), letter)
        /\ (parsed.fn = "attribute" /\ ~\E i \in 1..Len(path) : CodeAt(path, i, letter))
            => parsed.value = None

\* attribute was called for a code whose right-most group has three digits
C7_ThreeDigitGroupReached ==
    /\ parsed.fn = "attribute"
    /\ HasGroupOf2To4(path, upper(parsed.name))
    /\ Len(LastGroup(path, upper(parsed.name))) = 3

\* the places where a code with at least two digits stands
Valid(s, letter) ==
    {i \in 1..Len(s) : CodeAt(s, i, letter) /\ RunAt(s, i + 3) >= 2}

\* the digits the parser reads at place i: the group, four digits at most
Read(s, i) ==
    SubSeq(s, i + 3, i + 2 + (IF RunAt(s, i + 3) > 4 THEN 4 ELSE RunAt(s, i + 3)))

CountOf(seq, x) == Cardinality({i \in 1..Len(seq) : seq[i] = x})

----------------------------------------------------------------------------
(* The TIFF tags on their way through the JSON sidecar. A Python or JSON   *)
(* value is a record: t its type, n an integer's value, s a string's       *)
(* characters, items the elements of a tuple or list.                      *)

PyInt(n)       == [t |-> "int",   n |-> n, s |-> <<>>, items |-> <<>>]
PyStr(chars)   == [t |-> "str",   n |-> 0, s |-> chars, items |-> <<>>]
PyTuple(items) == [t |-> "tuple", n |-> 0, s |-> <<>>, items |-> items]
PyList(items)  == [t |-> "list",  n |-> 0, s |-> <<>>, items |-> items]

DigitChars == <<"0", "1", "2", "3", "4", "5", "6", "7", "8", "9">>

\* str() of an integer that is not negative
RECURSIVE str(_)
str(n) ==
    IF n < 10 THEN <<DigitChars[n + 1]>>
    ELSE str(n \div 10) \o <<DigitChars[(n % 10) + 1]>>

\* json.dump, then json.load, of a value: JSON has arrays only, so a tuple
\* comes back as a list, and so do the tuples inside it
RECURSIVE json_value(_)
json_value(v) ==
    IF v.t \in {"tuple", "list"}
    THEN PyList([i \in 1..Len(v.items) |-> json_value(v.items[i])])
    ELSE v

palette_key == <<"p", "a", "l", "e", "t", "t", "e">>

\* compress_blocking, lines 513-518: the tags with str keys, and the palette
\* of a palette-mode image under 'palette'
dump_tags(image) ==
    [i \in 1..Len(image.tags) |->
        [key |-> str(image.tags[i].key), val |-> json_value(image.tags[i].val)]]
    \o (IF image.mode = "P"
        THEN <<[key |-> palette_key, val |-> json_value(image.palette)]>>
        ELSE <<>>)

\* tuple(x) of one element x of a list of lists, line 611
tuple_of(x) ==
    IF x.t = "str" THEN PyTuple([i \in 1..Len(x.s) |-> PyStr(<<x.s[i]>>)])
    ELSE PyTuple(x.items)

\* lines 607-611 for one value of the sidecar: the exception raised, if any,
\* and the value stored in info
restore_value(val) ==
    LET v1 == IF val.t = "list" THEN PyTuple(val.items) ELSE val
    IN  IF v1.t = "int"
        THEN [exc |-> "TypeError", val |-> v1]       \* val[0] of a number
        ELSE IF (v1.t = "str" /\ v1.s = <<>>) \/ (v1.t = "tuple" /\ v1.items = <<>>)
        THEN [exc |-> "IndexError", val |-> v1]      \* val[0] of '' or ()
        ELSE IF v1.t = "tuple" /\ v1.items[1].t = "list"
        THEN IF \E i \in 1..Len(v1.items) : v1.items[i].t = "int"
             THEN [exc |-> "TypeError", val |-> v1]  \* tuple(x) of a number
             ELSE [exc |-> "",
                   val |-> PyTuple([i \in 1..Len(v1.items) |-> tuple_of(v1.items[i])])]
        ELSE [exc |-> "", val |-> v1]

\* the loop of lines 603-612 over the items of the sidecar from the i-th on
RECURSIVE restore_tags(_, _, _)
restore_tags(items, i, info) ==
    IF i > Len(items) THEN [exc |-> "", info |-> info]
    ELSE IF items[i].key = palette_key THEN restore_tags(items, i + 1, info)
    ELSE LET r == restore_value(items[i].val)
         IN  IF r.exc # "" THEN [exc |-> r.exc, info |-> <<>>]
             ELSE restore_tags(items, i + 1,
                               Append(info, [key |-> int(items[i].key), val |-> r.val]))

HasPalette(items) == \E i \in 1..Len(items) : items[i].key = palette_key

\* decompress, lines 598-616: info, and the palette given to img.putpalette.
\* Neither TypeError nor IndexError is caught by line 628.
restore(items) ==
    LET r == restore_tags(items, 1, <<>>)
    IN  [done |-> TRUE, exc |-> r.exc, info |-> r.info,
         palette |-> IF r.exc = "" /\ HasPalette(items)
                     THEN <<items[CHOOSE i \in 1..Len(items) :
                                        items[i].key = palette_key].val>>
                     ELSE <<>>]

\* The images whose tags are converted: a tag is a number, a string, a tuple
\* or a tuple of tuples.
TagIds == {256, 270, 282}
TagValues ==
    { PyInt(7),
      PyStr(<<"a", "b">>),
      PyStr(<<>>),
      PyTuple(<<>>),
      PyTuple(<<PyInt(1), PyInt(2)>>),
      PyTuple(<<PyStr(<<"a", "b">>)>>),
      PyTuple(<<PyTuple(<<PyInt(1), PyInt(2)>>), PyTuple(<<PyInt(3)>>)>>) }
TagLists ==
    {l \in UNION {[1..n -> [key : TagIds, val : TagValues]] : n \in 0..MaxTags} :
        \A i, k \in DOMAIN l : i # k => l[i].key # l[k].key}
the_palette == PyList(<<PyInt(0), PyInt(255)>>)

CompressTags ==
    /\ ~sidecar.written
    /\ sidecar' = [written |-> TRUE, items |-> dump_tags(img)]
    /\ UNCHANGED <<img, restored, fileVars, attrVars, globVars>>

DecompressTags ==
    /\ sidecar.written /\ ~restored.done
    /\ restored' = restore(sidecar.items)
    /\ UNCHANGED <<img, sidecar, fileVars, attrVars, globVars>>

InitTags ==
    /\ img \in [mode : {"L", "P"}, tags : TagLists, palette : {the_palette}]
    /\ sidecar = NoSidecar
    /\ restored = NotRestored
    /\ FilesAtRest
    /\ ParserAtRest
    /\ ExperimentAtRest

NextTags ==
    \/ CompressTags
    \/ DecompressTags

SpecTags == InitTags /\ [][NextTags]_vars

----------------------------------------------------------------------------
(* Claim about the tags. *)

TagSet(l) == {l[i] : i \in 1..Len(l)}

\* C2: decompress rebuilds from the sidecar a mapping with the integer keys
\* of the original tags and values equal to the original ones in content
\* and shape; 'palette' is no key of it, and the palette is given to the
\* image exactly when the sidecar holds one.
C2_TagsRoundTrip ==
    restored.done
    => /\ restored.exc = ""
       /\ TagSet(restored.info) = TagSet(img.tags)
       /\ Len(restored.info) = Len(img.tags)
       /\ (restored.palette # <<>>) <=> HasPalette(sidecar.items)
       /\ HasPalette(sidecar.items) <=> img.mode = "P"


----------------------------------------------------------------------------
(* The folders of an experiment and the accessors of Experiment.           *)

\* the characters of the model's paths in the order of their code points
CodePoints ==
    <<"*", "-", ".", "/">> \o DigitChars \o UpperCase \o LowerCase
Ord(ch) == CHOOSE i \in 1..Len(CodePoints) : CodePoints[i] = ch

SetMin(S) == CHOOSE x \in S : \A y \in S : x <= y

\* a < b for two strings, as Python compares them
StrLess(a, b) ==
    LET n == IF Len(a) < Len(b) THEN Len(a) ELSE Len(b)
        D == {i \in 1..n : a[i] # b[i]}
    IN  IF D = {} THEN Len(a) < Len(b)
        ELSE Ord(a[SetMin(D)]) < Ord(b[SetMin(D)])

\* sorted() of a set of strings
RECURSIVE sorted(_)
sorted(S) ==
    IF S = {} THEN <<>>
    ELSE LET m == CHOOSE x \in S : \A y \in S : y = x \/ StrLess(x, y)
         IN  <<m>> \o sorted(S \ {m})

\* the components of a path
RECURSIVE Split(_)
Split(p) ==
    IF RFind(p, "/") = 0 THEN <<p>>
    ELSE Append(Split(SubSeq(p, 1, RFind(p, "/") - 1)),
                SubSeq(p, RFind(p, "/") + 1, Len(p)))

\* fnmatch of one name against a pattern with '*'
RECURSIVE fnmatch(_, _)
fnmatch(name, pat) ==
    IF pat = <<>> THEN name = <<>>
    ELSE IF pat[1] = "*"
    THEN fnmatch(name, Tail(pat)) \/ (name # <<>> /\ fnmatch(Tail(name), pat))
    ELSE name # <<>> /\ name[1] = pat[1] /\ fnmatch(Tail(name), Tail(pat))

\* glob.glob: the entries whose every component matches the pattern's; a
\* name that begins with a dot matches only a pattern that does. Their
\* order is the operating system's: they are a set.
sysglob(pat, entries) ==
    LET want == Split(pat)
    IN  {p \in entries :
            LET have == Split(p)
            IN  /\ Len(have) = Len(want)
                /\ \A i \in 1..Len(have) :
                    /\ fnmatch(have[i], want[i])
                    /\ (have[i] # <<>> /\ have[i][1] = "."
                            => want[i] # <<>> /\ want[i][1] = ".")}

\* glob(pattern), lines 33-36
glob(pat, entries) == sorted(sysglob(pat, entries))

_slide   == <<"s", "l", "i", "d", "e">>
_chamber == <<"c", "h", "a", "m", "b", "e", "r">>
_field   == <<"f", "i", "e", "l", "d">>
_image   == <<"i", "m", "a", "g", "e">>
default_extension == <<"-", "-", "*">>

\* _pattern(*names, extension), lines 745-747
RECURSIVE join_all(_)
join_all(names) ==
    IF Len(names) = 1 THEN names[1]
    ELSE join(join_all(SubSeq(names, 1, Len(names) - 1)), names[Len(names)])
_pattern(names, extension) == join_all(names) \o extension

\* Experiment.__init__, lines 66-71
experiment_path == <<"/", "e">>
_slide_path == _pattern(<<experiment_path, _slide>>, default_extension)
_well_path  == _pattern(<<_slide_path, _chamber>>, default_extension)
_field_path == _pattern(<<_well_path, _field>>, default_extension)
_image_path == _pattern(<<_field_path, _image>>, default_extension)

\* Experiment.slides, wells and fields, lines 76-89
slides(entries) == glob(_slide_path, entries)
wells(entries)  == glob(_well_path, entries)
fields(entries) == glob(_field_path, entries)

\* Experiment.images, lines 91-99: the sorted .tif matches, then the sorted
\* .png matches
images(entries) ==
    glob(_pattern(<<_image_path>>, <<"t", "i", "f">>), entries)
    \o glob(_pattern(<<_image_path>>, <<"p", "n", "g">>), entries)

\* The experiment of the model: one slide, two wells, in each well the
\* fields X00..X<MaxFieldX> of row Y00, one image per field, which may exist
\* as .ome.tif, as .png, as both or not at all.
TwoDigits(n) == <<DigitChars[(n \div 10) + 1], DigitChars[(n % 10) + 1]>>
Code(letter, n) == <<"-", "-", letter>> \o TwoDigits(n)

WellUs  == {0, 1}
FieldXs == 0..MaxFieldX

SlideDir == join(experiment_path, _slide \o Code("S", 0))
WellDir(u) == join(SlideDir, _chamber \o Code("U", u) \o Code("V", 0))
FieldDir(u, x) == join(WellDir(u), _field \o Code("X", x) \o Code("Y", 0))
ImageBase(u, x) ==
    join(FieldDir(u, x),
         _image \o Code("U", u) \o Code("V", 0) \o Code("X", x) \o Code("Y", 0))

Directories ==
    {experiment_path, SlideDir, join(experiment_path, <<"A", "d", "d", "i", "t", "i", "o", "n", "a", "l", "D", "a", "t", "a">>)}
    \cup {WellDir(u) : u \in WellUs}
    \cup {FieldDir(u, x) : u \in WellUs, x \in FieldXs}
ImageFiles ==
    {ImageBase(u, x) \o dot_ome_tif : u \in WellUs, x \in FieldXs}
    \cup {ImageBase(u, x) \o dot_png : u \in WellUs, x \in FieldXs}

\* what the file system holds: the folders and the files
Entries == Directories \cup fs

GetSlides ==
    /\ listing.accessor = "none"
    /\ listing' = [accessor |-> "slides", value |-> slides(Entries)]
    /\ UNCHANGED <<fileVars, attrVars, tagVars>>

GetWells ==
    /\ listing.accessor = "none"
    /\ listing' = [accessor |-> "wells", value |-> wells(Entries)]
    /\ UNCHANGED <<fileVars, attrVars, tagVars>>

GetFields ==
    /\ listing.accessor = "none"
    /\ listing' = [accessor |-> "fields", value |-> fields(Entries)]
    /\ UNCHANGED <<fileVars, attrVars, tagVars>>

GetImages ==
    /\ listing.accessor = "none"
    /\ listing' = [accessor |-> "images", value |-> images(Entries)]
    /\ UNCHANGED <<fileVars, attrVars, tagVars>>

\* Experiment.well_images(well_x, well_y), lines 165-167: a path without
\* the code gives None, which equals no number
well_images(well_x, well_y, entries) ==
    SelectSeq(images(entries),
              LAMBDA i : LET u == attribute(i, "u")
                             v == attribute(i, "v")
                         IN  /\ u.found /\ u.int = well_x
                             /\ v.found /\ v.int = well_y)

\* set([attribute(img, name) for img in imgs]); list() of it has no order
\* of its own, so the result is kept as a set
attribute_set(imgs, name) == {attribute(imgs[k], name) : k \in 1..Len(imgs)}

\* Experiment.columns(well_x, well_y), lines 185-186
columns(well_x, well_y, entries) ==
    attribute_set(well_images(well_x, well_y, entries), "y")

\* Experiment.rows(well_x, well_y), lines 204-205
rows(well_x, well_y, entries) ==
    attribute_set(well_images(well_x, well_y, entries), "x")

WellVs == {0}

GetWellImages ==
    /\ listing.accessor = "none"
    /\ \E well_x \in WellUs, well_y \in WellVs :
        listing' = [accessor |-> "well_images", well_x |-> well_x,
                    well_y |-> well_y,
                    value |-> well_images(well_x, well_y, Entries)]
    /\ UNCHANGED <<fileVars, attrVars, tagVars>>

GetColumns ==
    /\ listing.accessor = "none"
    /\ \E well_x \in WellUs, well_y \in WellVs :
        listing' = [accessor |-> "columns", well_x |-> well_x,
                    well_y |-> well_y,
                    value |-> columns(well_x, well_y, Entries)]
    /\ UNCHANGED <<fileVars, attrVars, tagVars>>

GetRows ==
    /\ listing.accessor = "none"
    /\ \E well_x \in WellUs, well_y \in WellVs :
        listing' = [accessor |-> "rows", well_x |-> well_x,
                    well_y |-> well_y,
                    value |-> rows(well_x, well_y, Entries)]
    /\ UNCHANGED <<fileVars, attrVars, tagVars>>

InitGlob ==
    /\ fs \in SUBSET ImageFiles
    /\ fs0 = fs
    /\ call = NoCall
    /\ jobs = <<>>
    /\ order = <<>>
    /\ decompressed_images = <<>>
    /\ ret = NoRet
    /\ listing = NoListing
    /\ ParserAtRest
    /\ TagsAtRest

NextGlob ==
    \/ GetSlides
    \/ GetWells
    \/ GetFields
    \/ GetImages
    \/ GetWellImages
    \/ GetColumns
    \/ GetRows

SpecGlob == InitGlob /\ [][NextGlob]_vars

----------------------------------------------------------------------------
(* Claim about the accessors. *)

IsSorted(seq) == \A i, k \in 1..Len(seq) : i < k => StrLess(seq[i], seq[k])

\* C10: whatever files exist, slides, wells, fields and images each return
\* their matches as one list in lexicographic order of the paths.
C10_AccessorsReturnSorted ==
    listing.accessor \in {"slides", "wells", "fields", "images"}
        => IsSorted(listing.value)

\* images was called while an image that is still .ome.tif sorts after one
\* that is already .png
C10_MixedFormatsReached ==
    /\ listing.accessor = "images"
    /\ \E t, q \in fs :
        /\ splitext(t)[2] = dot_tif /\ splitext(q)[2] = dot_png
        /\ StrLess(q, t)

\* the numbers a code takes among the images of a well
ValuesAmong(name, well_x, well_y) ==
    {attribute(p, name).int :
        p \in {q \in fs : /\ attribute(q, "U").int = well_x
                          /\ attribute(q, "V").int = well_y}}

\* C11: columns(x, y) is the set of the distinct X values among the images
\* of well (x, y), and rows(x, y) the set of their distinct Y values.
C11_ColumnsAreXRowsAreY ==
    /\ listing.accessor = "columns" =>
        {a.int : a \in listing.value}
            = ValuesAmong("X", listing.well_x, listing.well_y)
    /\ listing.accessor = "rows" =>
        {a.int : a \in listing.value}
            = ValuesAmong("Y", listing.well_x, listing.well_y)

\* columns was asked for a well that has an image in column X01
C11_SecondColumnReached ==
    /\ listing.accessor = "columns"
    /\ 1 \in ValuesAmong("X", listing.well_x, listing.well_y)


----------------------------------------------------------------------------
(* The life of one image: calls of compress and decompress that follow one *)
(* another, each job taken a file operation at a time.                     *)

o_x_png     == join(out_folder, <<"x">> \o dot_png)
o_x_json    == join(out_folder, <<"x">> \o dot_json)
o_x_ome_tif == join(out_folder, <<"x">> \o dot_ome_tif)

\* the image a/x as TIFF, as PNG and as sidecar, next to the source or in
\* the folder
Tiffs    == {a_x_tif, a_x_ome_tif, o_x_ome_tif}
Pngs     == {a_x_png, o_x_png}
Sidecars == {a_x_json, o_x_json}
LifeFiles == Tiffs \cup Pngs \cup Sidecars

\* the image is there: as a TIFF, or as a PNG with the sidecar beside it
Kept(files) ==
    \/ files \cap Tiffs # {}
    \/ \E q \in files \cap Pngs : decompress_json_filename(q) \in files

\* a mistaken compress_blocking that goes on to line 534 after img.save
\* raised
compress_save_unguarded(files, j, c) ==
    LET json == compress_json_filename(j.new_filename)
    IN  IF j.image \notin files
        THEN [fs |-> files, job |-> [j EXCEPT !.pc = "done", !.result = Empty]]
        ELSE IF j.image \in Unsavable
        THEN [fs  |-> files \cup {json},
              job |-> [j EXCEPT !.pc = "saved", !.wrote = {json}]]
        ELSE [fs  |-> files \cup {json, j.new_filename},
              job |-> [j EXCEPT !.pc = "saved",
                                !.wrote = {json, j.new_filename}]]

\* compress_blocking, lines 508-533: Image.open raises IOError for a file
\* that is not there; the sidecar is written, then the PNG; an IOError of
\* either leaves through line 537
compress_save(files, j, c) ==
    LET json == compress_json_filename(j.new_filename)
    IN  IF j.image \notin files
        THEN [fs |-> files, job |-> [j EXCEPT !.pc = "done", !.result = Empty]]
        ELSE IF j.image \in Unsavable
        THEN [fs  |-> files \cup {json},
              job |-> [j EXCEPT !.pc = "done", !.result = Empty,
                                !.wrote = {json}]]
        ELSE [fs  |-> files \cup {json, j.new_filename},
              job |-> [j EXCEPT !.pc = "saved",
                                !.wrote = {json, j.new_filename}]]

\* compress_blocking, lines 534-542
compress_delete(files, j, c) ==
    IF c.delete_tif
    THEN [fs  |-> files \ {j.image},
          job |-> [j EXCEPT !.pc = "done", !.result = j.new_filename,
                            !.removed = {j.image}]]
    ELSE [fs  |-> files,
          job |-> [j EXCEPT !.pc = "done", !.result = j.new_filename]]

\* decompress, lines 595-621
decompress_save(files, j, c) ==
    IF j.image \notin files \/ decompress_json_filename(j.image) \notin files
    THEN [fs |-> files, job |-> [j EXCEPT !.pc = "done"], append |-> <<>>]
    ELSE [fs  |-> files \cup {j.new_filename},
          job |-> [j EXCEPT !.pc = "saved", !.result = j.new_filename,
                            !.wrote = {j.new_filename}],
          append |-> <<j.new_filename>>]

\* decompress, lines 623-624
decompress_delete_png(files, j, c) ==
    IF decompress_options(c).delete_png
    THEN [fs  |-> files \ {j.image},
          job |-> [j EXCEPT !.pc = "png_done", !.removed = {j.image}]]
    ELSE [fs |-> files, job |-> [j EXCEPT !.pc = "png_done"]]

\* decompress, lines 625-626
decompress_delete_json(files, j, c) ==
    LET json == decompress_json_filename(j.image)
    IN  IF decompress_options(c).delete_json
        THEN [fs  |-> files \ {json},
              job |-> [j EXCEPT !.pc = "done", !.removed = @ \cup {json}]]
        ELSE [fs |-> files, job |-> [j EXCEPT !.pc = "done"]]

LifeCompressBlocking ==
    \E image \in Tiffs, delete_tif \in BOOLEAN, folder \in Folders,
       force \in BOOLEAN :
        Begin([NoCall EXCEPT !.op = "compress_blocking", !.asStr = TRUE,
                             !.images = <<image>>, !.delete_tif = delete_tif,
                             !.folder = folder, !.force = force])

LifeCompress ==
    \E image \in Tiffs, asStr \in BOOLEAN, delete_tif \in BOOLEAN,
       folder \in Folders :
        Begin([NoCall EXCEPT !.op = "compress", !.asStr = asStr,
                             !.images = <<image>>, !.delete_tif = delete_tif,
                             !.folder = folder])

LifeDecompress ==
    \E image \in Pngs, asStr \in BOOLEAN, delete_png \in BOOLEAN,
       delete_json \in BOOLEAN, folder \in Folders :
        Begin([NoCall EXCEPT !.op = "decompress", !.asStr = asStr,
                             !.images = <<image>>, !.delete_png = delete_png,
                             !.delete_json = delete_json, !.folder = folder])

\* a step of job i that changes files
FileStep(i, from, r) ==
    /\ Running
    /\ jobs[i].pc = from
    /\ fs' = r.fs
    /\ jobs' = [jobs EXCEPT ![i] = r.job]
    /\ order' = IF r.job.pc = "done" THEN Append(order, i) ELSE order
    /\ UNCHANGED <<fs0, call, ret>>
    /\ UNCHANGED notFileVars

CompressSave(i) ==
    /\ IsCompress
    /\ FileStep(i, "checked", compress_save(fs, jobs[i], call))
    /\ UNCHANGED decompressed_images

CompressDelete(i) ==
    /\ IsCompress
    /\ FileStep(i, "saved", compress_delete(fs, jobs[i], call))
    /\ UNCHANGED decompressed_images

DecompressSave(i) ==
    /\ call.op = "decompress"
    /\ FileStep(i, "checked", decompress_save(fs, jobs[i], call))
    /\ decompressed_images' =
        decompressed_images \o decompress_save(fs, jobs[i], call).append

DecompressDeletePng(i) ==
    /\ call.op = "decompress"
    /\ FileStep(i, "saved", decompress_delete_png(fs, jobs[i], call))
    /\ UNCHANGED decompressed_images

DecompressDeleteJson(i) ==
    /\ call.op = "decompress"
    /\ FileStep(i, "png_done", decompress_delete_json(fs, jobs[i], call))
    /\ UNCHANGED decompressed_images

\* the call has returned or raised; the next one may be made
NextCall ==
    /\ ret.kind # "none"
    /\ call' = NoCall
    /\ fs0' = fs
    /\ jobs' = <<>>
    /\ order' = <<>>
    /\ decompressed_images' = <<>>
    /\ ret' = NoRet
    /\ UNCHANGED fs
    /\ UNCHANGED notFileVars

\* the image begins as a TIFF, under one or more of its names
InitLife ==
    /\ fs \in (SUBSET Tiffs) \ {{}}
    /\ fs0 = fs
    /\ call = NoCall
    /\ jobs = <<>>
    /\ order = <<>>
    /\ decompressed_images = <<>>
    /\ ret = NoRet
    /\ ParserAtRest
    /\ TagsAtRest
    /\ ExperimentAtRest

NextLife ==
    \/ LifeCompressBlocking
    \/ LifeCompress
    \/ LifeDecompress
    \/ \E i \in DOMAIN jobs : CompressCheck(i)
    \/ \E i \in DOMAIN jobs : CompressSave(i)
    \/ \E i \in DOMAIN jobs : CompressDelete(i)
    \/ \E i \in DOMAIN jobs : DecompressCheck(i)
    \/ \E i \in DOMAIN jobs : DecompressSave(i)
    \/ \E i \in DOMAIN jobs : DecompressDeletePng(i)
    \/ \E i \in DOMAIN jobs : DecompressDeleteJson(i)
    \/ Return
    \/ NextCall

SpecLife == InitLife /\ [][NextLife]_vars

\* C12: a file is deleted only after the save of the same run: a compress
\* job has removed its TIFF only if it wrote the PNG and the sidecar, a
\* decompress job has removed the PNG or the sidecar only if it wrote the
\* TIFF; so through every sequence of calls the image is there as a TIFF or
\* as a PNG with its sidecar.
C12_DeleteOnlyAfterSave ==
    /\ \A i \in DOMAIN jobs :
        jobs[i].removed # {} =>
            IF IsCompress
            THEN {jobs[i].new_filename,
                  compress_json_filename(jobs[i].new_filename)}
                    \subseteq jobs[i].wrote
            ELSE jobs[i].new_filename \in jobs[i].wrote
    /\ Kept(fs)

\* a compress job deleted the only TIFF, and in a later call a decompress
\* job deleted the PNG
C12_DeletedBothWays ==
    /\ fs0 \cap Tiffs = {}
    /\ call.op = "decompress"
    /\ \E i \in DOMAIN jobs : jobs[i].image \in jobs[i].removed
    /\ fs \cap Pngs = {}

\* C13: a call of compress_blocking that returns the empty string has
\* created or changed no file, so no sidecar stands without its PNG; one
\* that returns a name has left the PNG of that name and its sidecar.
C13_CompressAllOrNothing ==
    (call.op = "compress_blocking" /\ ret.kind = "value") =>
        IF ret.val[1] = Empty
        THEN fs = fs0 /\ jobs[1].wrote = {}
        ELSE {ret.val[1], compress_json_filename(ret.val[1])} \subseteq fs

\* compress_blocking returned the empty string after img.save failed
C13_FailedSaveReturned ==
    /\ call.op = "compress_blocking" /\ ret.kind = "value"
    /\ ret.val[1] = Empty
    /\ jobs[1].image \in Unsavable /\ jobs[1].image \in fs0
    /\ compress_new_filename(jobs[1].image, call.folder) \notin fs0

----------------------------------------------------------------------------
(* The candidate output path of compress_blocking, for source paths that   *)
(* hold '.ome' in their folder, in their name or nowhere.                  *)

SourceFolders == {Empty, <<"a">>, <<"a", ".", "o", "m", "e">>}
SourceStems   == {<<"x">>, <<"x", ".", "o", "m", "e">>, <<"x", ".", "o", "m", "e", "g", "a">>, <<"x", ".", "o", "m", "e", "_", "1">>, <<".", "o", "m", "e", "x">>}
SourceExtensions == {dot_tif, dot_png, Empty}

\* the paths folder/stem + extension
SourcePaths ==
    {join(d, n \o e) : d \in SourceFolders, n \in SourceStems,
                       e \in SourceExtensions}

NameCompressBlocking ==
    \E image \in SourcePaths, delete_tif \in BOOLEAN, folder \in Folders,
       force \in BOOLEAN :
        Begin([NoCall EXCEPT !.op = "compress_blocking", !.asStr = TRUE,
                             !.images = <<image>>, !.delete_tif = delete_tif,
                             !.folder = folder, !.force = force])

\* no file exists, or every source does
InitName ==
    /\ fs \in {{}, SourcePaths}
    /\ fs0 = fs
    /\ call = NoCall
    /\ jobs = <<>>
    /\ order = <<>>
    /\ decompressed_images = <<>>
    /\ ret = NoRet
    /\ ParserAtRest
    /\ TagsAtRest
    /\ ExperimentAtRest

NextName ==
    \/ NameCompressBlocking
    \/ \E i \in DOMAIN jobs : CompressCheck(i)
    \/ \E i \in DOMAIN jobs : CompressAct(i)
    \/ Return

SpecName == InitName /\ [][NextName]_vars

EndsWith(s, suffix) ==
    Len(s) >= Len(suffix) /\ SubSeq(s, Len(s) - Len(suffix) + 1, Len(s)) = suffix

\* the path with its extension removed and, when what remains ends with
\* '.ome', that suffix removed
WithoutOmeSuffix(image) ==
    LET stem == splitext(image)[1]
    IN  IF EndsWith(stem, dot_ome)
        THEN SubSeq(stem, 1, Len(stem) - Len(dot_ome))
        ELSE stem

\* C14: the candidate output path of compress_blocking is the source path
\* without its extension and without a '.ome' that ends what remains, with
\* '.png' appended, placed in the folder under its basename when a folder is
\* given; a '.ome' elsewhere in the path changes nothing.
C14_CandidateOutputPath ==
    \A i \in DOMAIN jobs :
        (IsCompress /\ jobs[i].pc # "todo") =>
            jobs[i].new_filename =
                IF call.folder # Empty
                THEN join(call.folder,
                          basename(WithoutOmeSuffix(jobs[i].image)) \o dot_png)
                ELSE WithoutOmeSuffix(jobs[i].image) \o dot_png

\* the name of a source whose '.ome' does not end its stem was computed
C14_OmeInsidePathReached ==
    \E i \in DOMAIN jobs :
        /\ IsCompress /\ jobs[i].pc # "todo"
        /\ Occurrences(splitext(jobs[i].image)[1], dot_ome) # {}
        /\ ~EndsWith(splitext(jobs[i].image)[1], dot_ome)

=============================================================================
